---------------------------- MODULE Spec2Model ----------------------------
(***************************************************************************)
(* A model of the Diagram scene of QElectroTech (sources/diagram.cpp):     *)
(* item lifecycle (addItem / removeItem), potential grouping, selection,   *)
(* XML export and import, and the rendering options.                       *)
(***************************************************************************)
EXTENDS Integers, Sequences, FiniteSets, TLC

(***************************************************************************)
(* Bounds of the model.                                                    *)
(***************************************************************************)
NumElements   == 2      \* elements that can exist
NumConductors == 3      \* conductors that can exist
MaxSeqLen     == 2      \* longest value list of a folio sequential
MaxFolioSeqs  == 2      \* entries over the six folio-sequential tables

(***************************************************************************)
(* The items a diagram can hold.  An item is a pair <<type, id>>, as       *)
(* QGraphicsItem::type() tells the kinds apart in the source.              *)
(***************************************************************************)
OtherTypes == {"IndependentTextItem", "DiagramImageItem", "QetShapeItem",
               "QetGraphicsTableItem", "TerminalStripItem"}

Elements   == {<<"Element", i>> : i \in 1..NumElements}
Conductors == {<<"Conductor", i>> : i \in 1..NumConductors}
Others     == {<<t, 1>> : t \in OtherTypes}
AllItems   == Elements \cup Conductors \cup Others

ItemType(item) == item[1]
ItemsOfType(its, type) == {i \in its : ItemType(i) = type}

(* Terminals are children of elements. *)
TerminalIndex == {1, 2}
Terminals == Elements \X TerminalIndex

(* Terminal::parentItem(): the element a terminal belongs to. *)
parentItem(terminal) == terminal[1]

Point(x, y) == [x |-> x, y |-> y]
Origin == Point(0, 0)

VARIABLES
    items,          \* QGraphicsScene::items() of the diagram
    selected,       \* the items whose isSelected() is true
    pos,            \* item -> QGraphicsItem::pos()
    ends,           \* conductor -> <<terminal1, terminal2>>
    readOnly,       \* m_project->isReadOnly()
    database,       \* m_project->dataBase(): the elements it knows
    termConds,      \* Terminal -> the conductors registered on it
    related,        \* Conductor -> Conductor::relatedPotentialConductors()
    border_and_titleblock,        \* the border and title block informations
    defaultConductorProperties,   \* the default conductor properties
    m_conductors_autonum_name,    \* name of the conductor autonum
    m_freeze_new_elements,        \* freeze flag of the new elements
    m_freeze_new_conductors_,     \* freeze flag of the new conductors
    folio_max,      \* the six QHash<QString, QStringList> m_*_*folio_max
    draw_grid_,                   \* the grid is drawn
    use_border_,                  \* the border delimits the exported area
    draw_terminals_,              \* member set by the constructor
    draw_colored_conductors_,     \* the colors of the conductors are kept
    display_border_,              \* BorderTitleBlock: the border is drawn
    display_titleblock_,          \* BorderTitleBlock: the title block is drawn
    visible,        \* Terminal -> QGraphicsItem::isVisible()
    m_event_interface,            \* the installed event interface, or null
    zValue,         \* item -> QGraphicsItem::zValue()
    undo_stack,     \* the commands of undoStack(), the oldest first
    undo_index,     \* QUndoStack::index(): the commands that are done
    ret             \* what the last operation returned to its caller

infoVars == <<border_and_titleblock, defaultConductorProperties,
              m_conductors_autonum_name, m_freeze_new_elements,
              m_freeze_new_conductors_, folio_max>>
renderVars == <<draw_grid_, use_border_, draw_terminals_, draw_colored_conductors_,
                display_border_, display_titleblock_, visible>>
editVars == <<m_event_interface, zValue, undo_stack, undo_index>>
vars == <<items, selected, pos, ends, readOnly, database, termConds, related,
          border_and_titleblock, defaultConductorProperties,
          m_conductors_autonum_name, m_freeze_new_elements,
          m_freeze_new_conductors_, folio_max,
          draw_grid_, use_border_, draw_terminals_, draw_colored_conductors_,
          display_border_, display_titleblock_, visible,
          m_event_interface, zValue, undo_stack, undo_index, ret>>

terminal1(c) == ends[c][1]
terminal2(c) == ends[c][2]

(* The conductors as built before they are added: conductor k links
   terminal 1 of an element with terminal 2 of the next one. *)
InitialEnds ==
    [c \in Conductors |->
        << << <<"Element", ((c[2] - 1) % NumElements) + 1>>, 1 >>,
           << <<"Element", (c[2] % NumElements) + 1>>, 2 >> >>]

(* A void operation returns nothing. *)
NoRet == [op |-> "none"]

(* The null pointer. *)
Null == <<"null">>

(***************************************************************************)
(* Diagram::isReadOnly                                                     *)
(***************************************************************************)
isReadOnly == readOnly

(***************************************************************************)
(* Diagram::addItem: the state after addItem(item), as a record of the     *)
(* three things it can change.  en gives the terminals of the conductors.  *)
(***************************************************************************)
(* addItem that registers the conductor on its first terminal only. *)
AddItemEffectOneTerminal(its, db, tc, en, item) ==
    IF item = Null \/ isReadOnly \/ item \in its
    THEN [items |-> its, database |-> db, termConds |-> tc]
    ELSE [items |-> its \cup {item},
          database |-> IF ItemType(item) = "Element" THEN db \cup {item} ELSE db,
          termConds |->
              IF ItemType(item) = "Conductor"
              THEN [t \in Terminals |-> IF t = en[item][1] THEN tc[t] \cup {item} ELSE tc[t]]
              ELSE tc]

AddItemEffect(its, db, tc, en, item) ==
    IF item = Null \/ isReadOnly \/ item \in its
    THEN [items |-> its, database |-> db, termConds |-> tc]
    ELSE [items |-> its \cup {item},
          database |-> IF ItemType(item) = "Element" THEN db \cup {item} ELSE db,
          termConds |->
              IF ItemType(item) = "Conductor"
              THEN [t \in Terminals |->
                       IF t = en[item][1] \/ t = en[item][2]
                       THEN tc[t] \cup {item} ELSE tc[t]]
              ELSE tc]

(***************************************************************************)
(* Diagram::removeItem                                                     *)
(***************************************************************************)
(* removeItem without the test of isReadOnly(). *)
RemoveItemEffectWritable(its, db, tc, en, item) ==
    IF item = Null
    THEN [items |-> its, database |-> db, termConds |-> tc]
    ELSE [items |-> its \ {item},
          database |-> IF ItemType(item) = "Element" THEN db \ {item} ELSE db,
          termConds |->
              IF ItemType(item) = "Conductor"
              THEN [t \in Terminals |->
                       IF t = en[item][1] \/ t = en[item][2]
                       THEN tc[t] \ {item} ELSE tc[t]]
              ELSE tc]

RemoveItemEffect(its, db, tc, en, item) ==
    IF item = Null \/ isReadOnly
    THEN [items |-> its, database |-> db, termConds |-> tc]
    ELSE [items |-> its \ {item},
          database |-> IF ItemType(item) = "Element" THEN db \ {item} ELSE db,
          termConds |->
              IF ItemType(item) = "Conductor"
              THEN [t \in Terminals |->
                       IF t = en[item][1] \/ t = en[item][2]
                       THEN tc[t] \ {item} ELSE tc[t]]
              ELSE tc]

(* called is what the caller is left with: nothing, or for the callers
   that are observed the call they made and the state they made it in. *)
addItemCalled(item, called) ==
    LET e == AddItemEffect(items, database, termConds, ends, item) IN
    /\ items' = e.items
    /\ database' = e.database
    /\ termConds' = e.termConds
    /\ ret' = called
    /\ UNCHANGED <<selected, pos, ends, readOnly, related>>
    /\ UNCHANGED renderVars
    /\ UNCHANGED editVars
    /\ UNCHANGED infoVars

addItem(item) == addItemCalled(item, NoRet)

removeItemCalled(item, called) ==
    LET e == RemoveItemEffect(items, database, termConds, ends, item) IN
    /\ items' = e.items
    /\ database' = e.database
    /\ termConds' = e.termConds
    /\ ret' = called
    /\ UNCHANGED <<selected, pos, ends, readOnly, related>>
    /\ UNCHANGED renderVars
    /\ UNCHANGED editVars
    /\ UNCHANGED infoVars

removeItem(item) == removeItemCalled(item, NoRet)

(***************************************************************************)
(* Diagram::isEmpty                                                        *)
(***************************************************************************)
(* True when the diagram holds no element, conductor or text. *)
IsEmptyOfContent(its) ==
    \A i \in its : ItemType(i) \notin {"Element", "Conductor", "IndependentTextItem"}

IsEmpty(its) == Cardinality(its) = 0

isEmpty ==
    /\ ret' = [op |-> "isEmpty", result |-> IsEmpty(items)]
    /\ UNCHANGED <<items, selected, pos, ends, readOnly, database, termConds, related>>
    /\ UNCHANGED renderVars
    /\ UNCHANGED editVars
    /\ UNCHANGED infoVars

(***************************************************************************)
(* QETProject::setReadOnly: the project of the diagram becomes read-only   *)
(* or writable again.                                                      *)
(***************************************************************************)
setReadOnly(read_only) ==
    /\ readOnly' = read_only
    /\ ret' = NoRet
    /\ UNCHANGED <<items, selected, pos, ends, database, termConds, related>>
    /\ UNCHANGED renderVars
    /\ UNCHANGED editVars
    /\ UNCHANGED infoVars

(***************************************************************************)
(* Selection: QGraphicsItem::setSelected on an item of the diagram, and    *)
(* Diagram::selectAll, deselectAll, invertSelection.                       *)
(***************************************************************************)
setSelected(item, sel) ==
    /\ item \in items
    /\ selected' = IF sel THEN selected \cup {item} ELSE selected \ {item}
    /\ ret' = NoRet
    /\ UNCHANGED <<items, pos, ends, readOnly, database, termConds, related>>
    /\ UNCHANGED renderVars
    /\ UNCHANGED editVars
    /\ UNCHANGED infoVars

selectAll ==
    /\ selected' = IF items = {} THEN selected ELSE selected \cup items
    /\ ret' = NoRet
    /\ UNCHANGED <<items, pos, ends, readOnly, database, termConds, related>>
    /\ UNCHANGED renderVars
    /\ UNCHANGED editVars
    /\ UNCHANGED infoVars

deselectAll ==
    /\ selected' = IF items = {} THEN selected ELSE selected \ items
    /\ ret' = NoRet
    /\ UNCHANGED <<items, pos, ends, readOnly, database, termConds, related>>
    /\ UNCHANGED renderVars
    /\ UNCHANGED editVars
    /\ UNCHANGED infoVars

invertSelection ==
    /\ selected' = IF items = {} THEN selected
                   ELSE (selected \ items) \cup (items \ selected)
    /\ ret' = NoRet
    /\ UNCHANGED <<items, pos, ends, readOnly, database, termConds, related>>
    /\ UNCHANGED renderVars
    /\ UNCHANGED editVars
    /\ UNCHANGED infoVars

(***************************************************************************)
(* Diagram::content().conductors(): the conductors among items().          *)
(***************************************************************************)
ContentConductors(its) == ItemsOfType(its, "Conductor")

(* All the orders in which a container can list the members of a set. *)
Orderings(S) ==
    {s \in [1..Cardinality(S) -> S] : \A i, j \in 1..Cardinality(S) : s[i] = s[j] => i = j}

(***************************************************************************)
(* Conductor::relatedPotentialConductors                                   *)
(***************************************************************************)
relatedPotentialConductors(c) == related[c]

(***************************************************************************)
(* Diagram::potentials: the do/while loop over conductors_list.            *)
(***************************************************************************)
RECURSIVE PotentialLoop(_)
PotentialLoop(conductors_list) ==
    LET first == Head(conductors_list)
        one_potential == relatedPotentialConductors(first) \cup {first}
        rest == SelectSeq(Tail(conductors_list), LAMBDA c : c \notin one_potential)
    IN  IF rest = <<>> THEN <<one_potential>>
        ELSE <<one_potential>> \o PotentialLoop(rest)

(* The loop without "one_potential << conductors_list.takeFirst()". *)
RECURSIVE PotentialLoopNoTakeFirst(_)
PotentialLoopNoTakeFirst(conductors_list) ==
    LET first == Head(conductors_list)
        one_potential == relatedPotentialConductors(first)
        rest == SelectSeq(Tail(conductors_list), LAMBDA c : c \notin one_potential)
    IN  IF rest = <<>> THEN <<one_potential>>
        ELSE <<one_potential>> \o PotentialLoopNoTakeFirst(rest)

PotentialsNoTakeFirst(conductors_list) ==
    IF Len(conductors_list) = 0 THEN <<>>
    ELSE PotentialLoopNoTakeFirst(conductors_list)

(* The loop without "conductors_list.removeOne(c)" for the related ones. *)
RECURSIVE PotentialLoopKeepRelated(_)
PotentialLoopKeepRelated(conductors_list) ==
    LET first == Head(conductors_list)
        one_potential == relatedPotentialConductors(first) \cup {first}
        rest == Tail(conductors_list)
    IN  IF rest = <<>> THEN <<one_potential>>
        ELSE <<one_potential>> \o PotentialLoopKeepRelated(rest)

PotentialsKeepRelated(conductors_list) ==
    IF Len(conductors_list) = 0 THEN <<>>
    ELSE PotentialLoopKeepRelated(conductors_list)

Potentials(conductors_list) ==
    IF Len(conductors_list) = 0 THEN <<>>
    ELSE PotentialLoop(conductors_list)

potentials ==
    \E conductors_list \in Orderings(ContentConductors(items)) :
        /\ ret' = [op |-> "potentials",
                   conductors |-> ContentConductors(items),
                   potential_List |-> Potentials(conductors_list)]
        /\ UNCHANGED <<items, selected, pos, ends, readOnly, database, termConds, related>>
        /\ UNCHANGED renderVars
        /\ UNCHANGED editVars
        /\ UNCHANGED infoVars

(***************************************************************************)
(* XML.  A QDomElement is a record [tagName, attrs, children]: attrs maps  *)
(* attribute names to strings, children is the sequence of child elements. *)
(***************************************************************************)
NoAttrs == [n \in {} |-> ""]

DomElement(tagName, attrs, children) ==
    [tagName |-> tagName, attrs |-> attrs, children |-> children]

(* QDomElement::setAttribute *)
SetAttribute(attrs, name, value) ==
    [n \in (DOMAIN attrs) \cup {name} |-> IF n = name THEN value ELSE attrs[n]]

(* QDomElement::hasAttribute and QDomElement::attribute (default "") *)
HasAttribute(node, name) == name \in DOMAIN node.attrs
Attribute(node, name) == IF HasAttribute(node, name) THEN node.attrs[name] ELSE ""

(* The child elements of a node that carry a given tag, in document order:
   firstChildElement(tag) followed by nextSiblingElement(tag). *)
ChildElements(node, tag) == SelectSeq(node.children, LAMBDA c : c.tagName = tag)

RECURSIVE Flatten(_)
Flatten(seqs) == IF seqs = <<>> THEN <<>> ELSE Head(seqs) \o Flatten(Tail(seqs))

(* QET::findInDomElement(root, parent, child): the child elements tagged
   `child` of the children of root tagged `parent`. *)
FindInDomElement(root, parent, child) ==
    LET parents == ChildElements(root, parent)
    IN  Flatten([i \in 1..Len(parents) |-> ChildElements(parents[i], child)])

(* QString::number(int) *)
Number(n) == ToString(n)

(* QString::toInt(): the value of a decimal string, 0 when the string is
   not a number. *)
ToIntRange == -9..30
NumberTable == {<<Number(n), n>> : n \in ToIntRange}
ToInt(str) ==
    IF \E p \in NumberTable : p[1] = str
    THEN (CHOOSE p \in NumberTable : p[1] = str)[2]
    ELSE 0

(* Conversion of an int to bool. *)
IntToBool(n) == n # 0

(***************************************************************************)
(* The six folio-sequential tables, with the tags and the attribute prefix *)
(* toXml and fromXml use for each.                                          *)
(***************************************************************************)
ElmtGroup == "elementautonumfoliosequentials"
CndGroup  == "conductorautonumfoliosequentials"

FolioFields == <<
    [field |-> "m_elmt_unitfolio_max",    group |-> ElmtGroup,
     folioSeq |-> "elementunitfolioseq",    seq |-> "sequf_", type |-> "unitfolioseq"],
    [field |-> "m_elmt_tenfolio_max",     group |-> ElmtGroup,
     folioSeq |-> "elementtenfolioseq",     seq |-> "seqtf_", type |-> "tenfolioseq"],
    [field |-> "m_elmt_hundredfolio_max", group |-> ElmtGroup,
     folioSeq |-> "elementhundredfolioseq", seq |-> "seqhf_", type |-> "hundredfolioseq"],
    [field |-> "m_cnd_unitfolio_max",     group |-> CndGroup,
     folioSeq |-> "conductorunitfolioseq",    seq |-> "sequf_", type |-> "unitfolioseq"],
    [field |-> "m_cnd_tenfolio_max",      group |-> CndGroup,
     folioSeq |-> "conductortenfolioseq",     seq |-> "seqtf_", type |-> "tenfolioseq"],
    [field |-> "m_cnd_hundredfolio_max",  group |-> CndGroup,
     folioSeq |-> "conductorhundredfolioseq", seq |-> "seqhf_", type |-> "hundredfolioseq"] >>

FolioFieldNames == {FolioFields[i].field : i \in 1..Len(FolioFields)}

EmptyHash == [t \in {} |-> <<>>]

(* QHash::insert *)
HashInsert(hash, key, value) ==
    [k \in (DOMAIN hash) \cup {key} |-> IF k = key THEN value ELSE hash[k]]

(***************************************************************************)
(* Diagram::folioSequentialsToXml: one child per key of the hash, in the   *)
(* order `keys` in which the hash is iterated; the j-th value of a key is  *)
(* written as attribute seq_type + number(j+1).                            *)
(***************************************************************************)
FolioSeqAttrs(title, values, seq_type) ==
    [n \in {"title"} \cup {seq_type \o Number(j) : j \in 1..Len(values)} |->
        IF n = "title" THEN title
        ELSE values[CHOOSE j \in 1..Len(values) : seq_type \o Number(j) = n]]

folioSequentialsToXml(hash, keys, domElement, seq_type, type) ==
    [domElement EXCEPT !.children = @ \o
        [i \in 1..Len(keys) |->
            DomElement(type, FolioSeqAttrs(keys[i], hash[keys[i]], seq_type), <<>>)]]

(***************************************************************************)
(* Diagram::folioSequentialsFromXml: the values are read by counting the   *)
(* attributes seq1, seq2, ... until one is missing.                        *)
(***************************************************************************)
RECURSIVE ReadSeqFrom(_, _, _)
ReadSeqFrom(folioseq, seq, i) ==
    IF HasAttribute(folioseq, seq \o Number(i))
    THEN <<Attribute(folioseq, seq \o Number(i))>> \o ReadSeqFrom(folioseq, seq, i + 1)
    ELSE <<>>

RECURSIVE InsertFolioSeqs(_, _, _)
InsertFolioSeqs(hash, nodes, seq) ==
    IF nodes = <<>> THEN hash
    ELSE InsertFolioSeqs(
            HashInsert(hash, Attribute(Head(nodes), "title"), ReadSeqFrom(Head(nodes), seq, 1)),
            Tail(nodes), seq)

(* The attributes are counted from 0: nothing is read. *)
folioSequentialsFromXmlFromZero(root, hash, folioSeq, seq, type, autonumFolioSeqType) ==
    LET autoNums == FindInDomElement(root, autonumFolioSeqType, folioSeq)
        nodes == Flatten([i \in 1..Len(autoNums) |-> ChildElements(autoNums[i], type)])
    IN  IF nodes = <<>> THEN hash
        ELSE [t \in {Attribute(nodes[i], "title") : i \in 1..Len(nodes)} \cup DOMAIN hash |->
                 IF \E i \in 1..Len(nodes) : Attribute(nodes[i], "title") = t
                 THEN ReadSeqFrom(
                          nodes[CHOOSE i \in 1..Len(nodes) : Attribute(nodes[i], "title") = t],
                          seq, 0)
                 ELSE hash[t]]

folioSequentialsFromXml(root, hash, folioSeq, seq, type, autonumFolioSeqType) ==
    LET autoNums == FindInDomElement(root, autonumFolioSeqType, folioSeq)
        nodes == Flatten([i \in 1..Len(autoNums) |-> ChildElements(autoNums[i], type)])
    IN  InsertFolioSeqs(hash, nodes, seq)

(***************************************************************************)
(* The informations of a diagram, as a record (used to remember a state).  *)
(***************************************************************************)
Info ==
    [border_and_titleblock |-> border_and_titleblock,
     defaultConductorProperties |-> defaultConductorProperties,
     m_conductors_autonum_name |-> m_conductors_autonum_name,
     m_freeze_new_elements |-> m_freeze_new_elements,
     m_freeze_new_conductors_ |-> m_freeze_new_conductors_,
     folio_max |-> folio_max]

(* Diagram::Diagram: the informations of a newly constructed diagram. *)
FreshInfo ==
    [border_and_titleblock |-> "default",
     defaultConductorProperties |-> "default",
     m_conductors_autonum_name |-> "",
     m_freeze_new_elements |-> FALSE,
     m_freeze_new_conductors_ |-> FALSE,
     folio_max |-> [f \in FolioFieldNames |-> EmptyHash]]

(***************************************************************************)
(* Diagram::toXml, the schema properties (whole_content) or the project id *)
(***************************************************************************)
BoolToString(b) == IF b THEN "true" ELSE "false"

(* QETApp::projectId(m_project) *)
ProjectId == 0

(* One autonum-folio-sequentials element: present when one of its three
   tables is not empty, with one child per non-empty table. *)
FolioGroupToXml(group, hashOrder) ==
    LET fields == SelectSeq(FolioFields,
                     LAMBDA f : f.group = group /\ DOMAIN folio_max[f.field] # {})
    IN  IF fields = <<>> THEN <<>>
        ELSE << DomElement(group, NoAttrs,
                   [i \in 1..Len(fields) |->
                       folioSequentialsToXml(
                           folio_max[fields[i].field],
                           SelectSeq(hashOrder[fields[i].field],
                                     LAMBDA t : t \in DOMAIN folio_max[fields[i].field]),
                           DomElement(fields[i].folioSeq, NoAttrs, <<>>),
                           fields[i].seq, fields[i].type)]) >>

ToXmlRoot(whole_content, hashOrder) ==
    IF whole_content
    THEN LET a1 == SetAttribute(NoAttrs, "border", border_and_titleblock)
             a2 == IF m_conductors_autonum_name # ""
                   THEN SetAttribute(a1, "conductorAutonum", m_conductors_autonum_name)
                   ELSE a1
             a3 == SetAttribute(a2, "freezeNewElement", BoolToString(m_freeze_new_elements))
             a4 == SetAttribute(a3, "freezeNewConductor",
                                BoolToString(m_freeze_new_conductors_))
             default_conductor ==
                 DomElement("defaultconductor",
                            SetAttribute(NoAttrs, "properties", defaultConductorProperties),
                            <<>>)
         IN  DomElement("diagram", a4,
                        <<default_conductor>>
                        \o FolioGroupToXml(ElmtGroup, hashOrder)
                        \o FolioGroupToXml(CndGroup, hashOrder))
    ELSE DomElement("diagram",
                    SetAttribute(NoAttrs, "projectId", Number(ProjectId)), <<>>)

(***************************************************************************)
(* Diagram::fromXml, the attributes of the diagram (consider_informations) *)
(***************************************************************************)
FromXmlInfo(root, info) ==
    LET default_conductor_elmt == ChildElements(root, "defaultconductor")
        fold[i \in 0..Len(FolioFields)] ==
            IF i = 0 THEN info.folio_max
            ELSE [fold[i - 1] EXCEPT ![FolioFields[i].field] =
                     folioSequentialsFromXml(root, @,
                         FolioFields[i].folioSeq, FolioFields[i].seq,
                         FolioFields[i].type, FolioFields[i].group)]
    IN  [border_and_titleblock |->
             IF HasAttribute(root, "border") THEN Attribute(root, "border")
             ELSE info.border_and_titleblock,
         defaultConductorProperties |->
             IF default_conductor_elmt # <<>>
             THEN Attribute(Head(default_conductor_elmt), "properties")
             ELSE info.defaultConductorProperties,
         m_conductors_autonum_name |-> Attribute(root, "conductorAutonum"),
         m_freeze_new_elements |->
             IntToBool(ToInt(Attribute(root, "freezeNewElement"))),
         m_freeze_new_conductors_ |->
             IntToBool(ToInt(Attribute(root, "freezeNewConductor"))),
         folio_max |-> fold[Len(FolioFields)]]

(* The autonum titles and the value lists of the folio sequentials. *)
Titles == {"T1", "T2"}
FolioLists == {[j \in 1..k |-> Number(k - j + 1)] : k \in {0, MaxSeqLen}}

(***************************************************************************)
(* The XML of the items.  Element::toXml, Conductor::toXml and the like    *)
(* write the identity and the position of the item; a conductor names the  *)
(* element and the terminal of each of its two ends.                       *)
(***************************************************************************)
Uuid(item) == ItemType(item) \o "-" \o Number(item[2])
TerminalUuid(terminal) == "terminal-" \o Number(terminal[2])

ItemAttrs(item) ==
    [n \in {"uuid", "x", "y"} |->
        CASE n = "uuid" -> Uuid(item)
          [] n = "x" -> Number(pos[item].x)
          [] n = "y" -> Number(pos[item].y)]

ElementToXml(elmt) ==
    DomElement("element", SetAttribute(ItemAttrs(elmt), "type", "embed://symbol"), <<>>)

ConductorToXml(cond) ==
    DomElement("conductor",
        [n \in {"element1", "terminal1", "element2", "terminal2"} |->
            CASE n = "element1" -> Uuid(parentItem(terminal1(cond)))
              [] n = "terminal1" -> TerminalUuid(terminal1(cond))
              [] n = "element2" -> Uuid(parentItem(terminal2(cond)))
              [] n = "terminal2" -> TerminalUuid(terminal2(cond))],
        <<>>)

OtherToXml(item, tag) == DomElement(tag, ItemAttrs(item), <<>>)

(* A list of items under one parent element; nothing for an empty list. *)
ListToXml(parentTag, nodes) ==
    IF nodes = <<>> THEN <<>> ELSE << DomElement(parentTag, NoAttrs, nodes) >>

(* Which conductors toXml keeps.  With an "or" instead of the "and". *)
ConductorIsExportedEitherEnd(cond, whole_content) ==
    \/ whole_content
    \/ parentItem(terminal1(cond)) \in selected
    \/ parentItem(terminal2(cond)) \in selected

ConductorIsExported(cond, whole_content) ==
    \/ whole_content
    \/ /\ parentItem(terminal1(cond)) \in selected
       /\ parentItem(terminal2(cond)) \in selected

ItemIsExported(item, whole_content) == whole_content \/ item \in selected

(***************************************************************************)
(* Diagram::toXml.  hashOrder is the order in which each table is          *)
(* iterated.  items() lists the items in their stacking order: the items   *)
(* of a kind are listed here in the order of their ids.                    *)
(***************************************************************************)
SetOrder(S) ==
    CHOOSE s \in Orderings(S) : \A i, j \in 1..Len(s) : i < j => s[i][2] < s[j][2]

ExportedOfType(type, whole_content) ==
    {i \in ItemsOfType(items, type) : ItemIsExported(i, whole_content)}

ExportedConductors(whole_content) ==
    {c \in ItemsOfType(items, "Conductor") : ConductorIsExported(c, whole_content)}

OneOtherToXml(type, parentTag, tag, whole_content) ==
    LET list == SetOrder(ExportedOfType(type, whole_content))
    IN  ListToXml(parentTag, [i \in 1..Len(list) |-> OtherToXml(list[i], tag)])

ToXml(whole_content, hashOrder) ==
    LET root == ToXmlRoot(whole_content, hashOrder)
        elmtOrder == SetOrder(ExportedOfType("Element", whole_content))
        condOrder == SetOrder(ExportedConductors(whole_content))
    IN  IF items = {} THEN root
        ELSE [root EXCEPT !.children = @
                \o ListToXml("elements",
                       [i \in 1..Len(elmtOrder) |-> ElementToXml(elmtOrder[i])])
                \o ListToXml("conductors",
                       [i \in 1..Len(condOrder) |-> ConductorToXml(condOrder[i])])
                \o OneOtherToXml("IndependentTextItem", "inputs", "input", whole_content)
                \o OneOtherToXml("DiagramImageItem", "images", "image", whole_content)
                \o OneOtherToXml("QetShapeItem", "shapes", "shape", whole_content)
                \o OneOtherToXml("QetGraphicsTableItem", "tables", "table", whole_content)
                \o OneOtherToXml("TerminalStripItem", "terminal_strip_items",
                                 "terminal_strip_item", whole_content)]

(* The orders in which the tables can be iterated: a choice for each table
   that holds several titles (the others have one order only). *)
HashOrders(whole_content) ==
    LET several == {f \in FolioFieldNames :
                       whole_content /\ Cardinality(DOMAIN folio_max[f]) > 1}
    IN  {[f \in FolioFieldNames |->
             IF f \in several THEN h[f]
             ELSE CHOOSE o \in Orderings(Titles) : TRUE] :
         h \in [several -> Orderings(Titles)]}

toXml(whole_content) ==
    \E hashOrder \in HashOrders(whole_content) :
        /\ ret' = [op |-> "toXml",
                   whole_content |-> whole_content,
                   document |-> ToXml(whole_content, hashOrder),
                   source |-> Info]
        /\ UNCHANGED <<items, selected, pos, ends, readOnly, database, termConds, related>>
        /\ UNCHANGED renderVars
        /\ UNCHANGED editVars
        /\ UNCHANGED infoVars

(***************************************************************************)
(* Diagram::snapToGrid.  The grid steps are read from the settings, whose  *)
(* default is Diagram::xGrid / Diagram::yGrid.                             *)
(***************************************************************************)
xGrid == 10
yGrid == 10

(* The mutant of qRound: the fraction is cut off. *)
QFloorDiv(n, d) == n \div d

(* qRound(n / d) for integers n and d > 0: the nearest integer, a half
   going up. *)
QRoundDiv(n, d) == (2 * n + d) \div (2 * d)

SnapToGrid(p, control) ==
    IF control
    THEN Point(QRoundDiv(p.x, 1), QRoundDiv(p.y, 1))
    ELSE Point(QRoundDiv(p.x, xGrid) * xGrid, QRoundDiv(p.y, yGrid) * yGrid)

(***************************************************************************)
(* What the items' own fromXml and constructors do (they are outside       *)
(* diagram.cpp).                                                           *)
(***************************************************************************)
(* Element::valideXml and Conductor::valideXml: the mandatory attributes. *)
ElementValideXml(e) ==
    HasAttribute(e, "type") /\ HasAttribute(e, "x") /\ HasAttribute(e, "y")
ConductorValideXml(f) == HasAttribute(f, "terminal1") /\ HasAttribute(f, "terminal2")

(* ElementFactory::createElement: state is 0 when the definition is found. *)
KnownElementTypes == {"embed://symbol"}
CreateElementState(e) == IF Attribute(e, "type") \in KnownElementTypes THEN 0 ELSE 1

(* Element::fromXml fails when the terminals of the XML do not match. *)
ElementFromXml(e) == Attribute(e, "terminals") # "mismatch"

(* The position an item reads from its XML. *)
PosFromXml(node) == Point(ToInt(Attribute(node, "x")), ToInt(Attribute(node, "y")))

(* The first free item of a type: the object a `new` creates. *)
NewItem(type, used) ==
    <<type, CHOOSE i \in 1..(Cardinality(used) + 1) : <<type, i>> \notin used
                /\ \A j \in 1..(i - 1) : <<type, j>> \in used>>

(* Conductor::isValid: false when the two terminals are already linked. *)
ConductorIsValid(tc, p1, p2) == tc[p1] \cap tc[p2] = {}

(***************************************************************************)
(* findTerminal: the terminal of an element added by this import, found by *)
(* the uuid of the element and of the terminal; Null when not found.       *)
(* added_elements is a sequence of [item, uuid].                           *)
(***************************************************************************)
findTerminal(conductor_index, f, added_elements) ==
    LET element_index == "element" \o Number(conductor_index)
        terminal_index == "terminal" \o Number(conductor_index)
        found == {i \in 1..Len(added_elements) :
                     added_elements[i].uuid = Attribute(f, element_index)}
    IN  IF HasAttribute(f, element_index) /\ found # {}
        THEN LET element == added_elements[CHOOSE i \in found : \A j \in found : i <= j].item
                 match == {t \in TerminalIndex :
                              TerminalUuid(<<element, t>>) = Attribute(f, terminal_index)}
             IN  IF match # {} THEN <<element, CHOOSE t \in match : TRUE>> ELSE Null
        ELSE Null

(***************************************************************************)
(* Diagram::fromXml, the loops that load the items.  The state of a loop   *)
(* is a record s: the scene (items, database, termConds), pos, ends, the   *)
(* objects created so far (made) and the added_* lists.  overflow is set   *)
(* when a `new` finds no object left among AllItems: the model does not    *)
(* follow such a call.                                                     *)
(***************************************************************************)
(* The scene of s replaced by the one an addItem or removeItem leaves. *)
WithScene(s, e) ==
    [s EXCEPT !.items = e.items, !.database = e.database, !.termConds = e.termConds]

(* removeItem(item) after the addItem(item) that left a. *)
RemoveAdded(a, en, item) == RemoveItemEffect(a.items, a.database, a.termConds, en, item)

(* One valid element node, nvel_elmt being the element created for it: it
   is added, then loaded; removed and deleted when the load fails. *)
LoadElement(s, element_xml, nvel_elmt) ==
    IF ~ElementFromXml(element_xml)
    THEN WithScene(s,
             RemoveAdded(AddItemEffect(s.items, s.database, s.termConds, s.ends, nvel_elmt),
                         s.ends, nvel_elmt))
    ELSE [WithScene(s, AddItemEffect(s.items, s.database, s.termConds, s.ends, nvel_elmt))
             EXCEPT !.made = @ \cup {nvel_elmt},
                    !.pos = [@ EXCEPT ![nvel_elmt] = PosFromXml(element_xml)],
                    !.added_elements = Append(@,
                        [item |-> nvel_elmt, uuid |-> Attribute(element_xml, "uuid")])]

(* A `new` that finds no object left among AllItems, and s marked so. *)
Overflows(item) == item \notin AllItems
Overflow(s) == [s EXCEPT !.overflow = TRUE]

RECURSIVE LoadElements(_, _)
LoadElements(s, nodes) ==
    IF nodes = <<>> THEN s
    ELSE IF ~ElementValideXml(Head(nodes)) \/ CreateElementState(Head(nodes)) # 0
         THEN LoadElements(s, Tail(nodes))
         ELSE IF Overflows(NewItem("Element", s.items \cup s.made))
              THEN Overflow(s)
              ELSE LoadElements(
                       LoadElement(s, Head(nodes), NewItem("Element", s.items \cup s.made)),
                       Tail(nodes))

(* The loops over the texts, the images, the shapes, the tables and the
   terminal strips: an item is created, loaded and added for each node. *)
LoadOther(s, node, type, item) ==
    [s EXCEPT !.items = AddItemEffect(s.items, s.database, s.termConds, s.ends, item).items,
              !.made = @ \cup {item},
              !.pos = [@ EXCEPT ![item] = PosFromXml(node)],
              !.added = [@ EXCEPT ![type] = Append(@, item)]]

RECURSIVE LoadOthers(_, _, _)
LoadOthers(s, nodes, type) ==
    IF nodes = <<>> THEN s
    ELSE IF Overflows(NewItem(type, s.items \cup s.made))
         THEN Overflow(s)
         ELSE LoadOthers(LoadOther(s, Head(nodes), type, NewItem(type, s.items \cup s.made)),
                         Tail(nodes), type)

(* One conductor node f whose terminals p1 and p2 were looked for; c is
   the conductor created between them. *)
ConductorIsLoaded(s, f, p1, p2) ==
    /\ ConductorValideXml(f)
    /\ p1 # Null
    /\ p2 # Null
    /\ p1 # p2
    /\ ConductorIsValid(s.termConds, p1, p2)

AddConductorTo(s, c) ==
    [WithScene(s, AddItemEffect(s.items, s.database, s.termConds, s.ends, c))
        EXCEPT !.made = @ \cup {c},
               !.pos = [@ EXCEPT ![c] = Origin],
               !.added = [@ EXCEPT !["Conductor"] = Append(@, c)]]

LoadConductor(s, c, p1, p2) ==
    AddConductorTo([s EXCEPT !.ends = [@ EXCEPT ![c] = <<p1, p2>>]], c)

RECURSIVE LoadConductors(_, _)
LoadConductors(s, nodes) ==
    IF nodes = <<>> THEN s
    ELSE IF ~ConductorIsLoaded(s, Head(nodes),
                               findTerminal(1, Head(nodes), s.added_elements),
                               findTerminal(2, Head(nodes), s.added_elements))
         THEN LoadConductors(s, Tail(nodes))
         ELSE IF Overflows(NewItem("Conductor", s.items \cup s.made))
              THEN Overflow(s)
              ELSE LoadConductors(
                       LoadConductor(s, NewItem("Conductor", s.items \cup s.made),
                                     findTerminal(1, Head(nodes), s.added_elements),
                                     findTerminal(2, Head(nodes), s.added_elements)),
                       Tail(nodes))

(***************************************************************************)
(* The scene rectangle of an item (mapToScene(boundingRect())): a non-null *)
(* rectangle whose top-left corner is the item's position; a conductor     *)
(* spans the elements of its two terminals.                                *)
(***************************************************************************)
Min(S) == CHOOSE m \in S : \A n \in S : m <= n

ItemTopLeft(p, en, item) ==
    IF ItemType(item) = "Conductor"
    THEN LET e1 == parentItem(en[item][1])
             e2 == parentItem(en[item][2])
         IN  Point(Min({p[e1].x, p[e2].x}) + p[item].x,
                   Min({p[e1].y, p[e2].y}) + p[item].y)
    ELSE p[item]

(* items_rect.topLeft() of the rectangles of a set of items united; the
   null rectangle, at the origin, when there is none. *)
TopLeft(p, en, its) ==
    IF its = {} THEN Origin
    ELSE Point(Min({ItemTopLeft(p, en, i).x : i \in its}),
               Min({ItemTopLeft(p, en, i).y : i \in its}))

Range(seq) == {seq[i] : i \in 1..Len(seq)}

(***************************************************************************)
(* DiagramContent, as far as fromXml fills it.                             *)
(***************************************************************************)
NullContent == [null |-> TRUE]
EmptyContent ==
    [null |-> FALSE, m_elements |-> <<>>, m_conductors_to_move |-> <<>>, m_text_fields |-> {},
     m_images |-> {}, m_shapes |-> {}, m_terminal_strip |-> <<>>, m_tables |-> <<>>]

ContentItems(content) ==
    Range(content.m_elements) \cup Range(content.m_conductors_to_move)
    \cup content.m_text_fields \cup content.m_images \cup content.m_shapes
    \cup Range(content.m_terminal_strip) \cup Range(content.m_tables)

(***************************************************************************)
(* Diagram::fromXml(root, position, consider_informations, content_ptr).   *)
(* content_ptr is null or the DiagramContent the caller hands in; control  *)
(* tells whether the Control key is held (it is read by snapToGrid).       *)
(* The result is the value returned, the new state and the content.        *)
(***************************************************************************)
Unchanged(result, content_ptr) ==
    [result |-> result, info |-> Info, items |-> items, database |-> database,
     termConds |-> termConds, pos |-> pos, ends |-> ends, content |-> content_ptr,
     created |-> {}, overflow |-> FALSE]

(* fromXml without the test of the tag of the root. *)
FromXmlAnyTag(root, position, consider_informations, content_ptr, control) ==
    [Unchanged(TRUE, content_ptr) EXCEPT !.info = FromXmlInfo(root, Info)]

(* fromXml which always reads the informations. *)
FromXmlAlwaysInformations(root, position, consider_informations, content_ptr, control) ==
    IF root.tagName # "diagram" THEN Unchanged(FALSE, content_ptr)
    ELSE [Unchanged(TRUE, content_ptr) EXCEPT !.info = FromXmlInfo(root, Info)]

(* The loops of fromXml, in their order, from the state s0. *)
LoadItems(s0, root) ==
    LoadOthers(
      LoadOthers(
        LoadConductors(
          LoadOthers(
            LoadOthers(
              LoadOthers(
                LoadElements(s0, FindInDomElement(root, "elements", "element")),
                FindInDomElement(root, "inputs", "input"), "IndependentTextItem"),
              FindInDomElement(root, "images", "image"), "DiagramImageItem"),
            FindInDomElement(root, "shapes", "shape"), "QetShapeItem"),
          FindInDomElement(root, "conductors", "conductor")),
        FindInDomElement(root, "tables", "table"), "QetGraphicsTableItem"),
      FindInDomElement(root, "terminal_strip_items", "terminal_strip_item"),
      "TerminalStripItem")

(* The translation of the added items by pos_. *)
Translate(p, added_items, pos_) ==
    [i \in DOMAIN p |->
        IF i \in added_items THEN Point(p[i].x + pos_.x, p[i].y + pos_.y) ELSE p[i]]

TranslationTo(position, point_, control) ==
    SnapToGrid(Point(position.x - point_.x, position.y - point_.y), control)

(* The filling of content_ptr from the added_* lists. *)
FillContent(s, content_ptr) ==
    IF content_ptr.null THEN content_ptr
    ELSE [null |-> FALSE,
          m_elements |-> [i \in 1..Len(s.added_elements) |-> s.added_elements[i].item],
          m_conductors_to_move |-> s.added["Conductor"],
          m_text_fields |-> Range(s.added["IndependentTextItem"]),
          m_images |-> Range(s.added["DiagramImageItem"]),
          m_shapes |-> Range(s.added["QetShapeItem"]),
          m_terminal_strip |-> s.added["TerminalStripItem"],
          m_tables |-> s.added["QetGraphicsTableItem"]]

(* The end of fromXml, s being the state the loops have left. *)
FromXmlItems(s, info, position, content_ptr, control) ==
    [result |-> TRUE, info |-> info, items |-> s.items, database |-> s.database,
     termConds |-> s.termConds,
     pos |-> IF position # Origin
             THEN Translate(s.pos, s.made,
                            TranslationTo(position, TopLeft(s.pos, s.ends, s.made), control))
             ELSE s.pos,
     ends |-> s.ends, content |-> FillContent(s, content_ptr),
     created |-> s.made, overflow |-> s.overflow]

LoadState ==
    [items |-> items, database |-> database, termConds |-> termConds,
     pos |-> pos, ends |-> ends, made |-> {}, overflow |-> FALSE,
     added_elements |-> <<>>,
     added |-> [t \in OtherTypes \cup {"Conductor"} |-> <<>>]]

FromXml(root, position, consider_informations, content_ptr, control) ==
    IF root.tagName # "diagram" THEN Unchanged(FALSE, content_ptr)
    ELSE IF root.children = <<>>
         THEN [Unchanged(TRUE, content_ptr) EXCEPT
                  !.info = IF consider_informations THEN FromXmlInfo(root, Info) ELSE Info]
         ELSE FromXmlItems(LoadItems(LoadState, root),
                           IF consider_informations THEN FromXmlInfo(root, Info) ELSE Info,
                           position, content_ptr, control)

fromXml(root, position, consider_informations, content_ptr, control, source) ==
    \E r \in {FromXml(root, position, consider_informations, content_ptr, control)} :
        /\ ~r.overflow
        /\ items' = r.items
        /\ database' = r.database
        /\ termConds' = r.termConds
        /\ pos' = [i \in AllItems |-> IF i \in r.items THEN r.pos[i] ELSE Origin]
        /\ ends' = r.ends
        /\ border_and_titleblock' = r.info.border_and_titleblock
        /\ defaultConductorProperties' = r.info.defaultConductorProperties
        /\ m_conductors_autonum_name' = r.info.m_conductors_autonum_name
        /\ m_freeze_new_elements' = r.info.m_freeze_new_elements
        /\ m_freeze_new_conductors_' = r.info.m_freeze_new_conductors_
        /\ folio_max' = r.info.folio_max
        /\ ret' = [op |-> "fromXml", result |-> r.result, tagName |-> root.tagName,
                   position |-> position, control |-> control,
                   consider_informations |-> consider_informations,
                   content_ptr |-> content_ptr, content |-> r.content,
                   created |-> r.created,
                   before |-> [info |-> Info, items |-> items],
                   source |-> source]
        /\ UNCHANGED <<selected, readOnly, related>>
        /\ UNCHANGED renderVars
        /\ UNCHANGED editVars

(***************************************************************************)
(* The setters of the informations.                                        *)
(***************************************************************************)
setFreezeNewElements(b) ==
    /\ m_freeze_new_elements' = b
    /\ ret' = NoRet
    /\ UNCHANGED <<border_and_titleblock, defaultConductorProperties,
                   m_conductors_autonum_name, m_freeze_new_conductors_, folio_max>>
    /\ UNCHANGED <<items, selected, pos, ends, readOnly, database, termConds, related>>
    /\ UNCHANGED renderVars
    /\ UNCHANGED editVars

setFreezeNewConductors(b) ==
    /\ m_freeze_new_conductors_' = b
    /\ ret' = NoRet
    /\ UNCHANGED <<border_and_titleblock, defaultConductorProperties,
                   m_conductors_autonum_name, m_freeze_new_elements, folio_max>>
    /\ UNCHANGED <<items, selected, pos, ends, readOnly, database, termConds, related>>
    /\ UNCHANGED renderVars
    /\ UNCHANGED editVars

setConductorsAutonumName(name) ==
    /\ m_conductors_autonum_name' = name
    /\ ret' = NoRet
    /\ UNCHANGED <<border_and_titleblock, defaultConductorProperties,
                   m_freeze_new_elements, m_freeze_new_conductors_, folio_max>>
    /\ UNCHANGED <<items, selected, pos, ends, readOnly, database, termConds, related>>
    /\ UNCHANGED renderVars
    /\ UNCHANGED editVars

(***************************************************************************)
(* Diagram::insertFolioSeqHash, as loadElmtFolioSeq and loadCndFolioSeq    *)
(* call it: for a title the table does not hold yet, with the list of the  *)
(* numbers computed from the numerotation context.                         *)
(***************************************************************************)
FolioSeqCount ==
    Cardinality({ft \in FolioFieldNames \X Titles : ft[2] \in DOMAIN folio_max[ft[1]]})

insertFolioSeqHash(field, title, max) ==
    /\ title \notin DOMAIN folio_max[field]
    /\ FolioSeqCount < MaxFolioSeqs
    /\ folio_max' = [folio_max EXCEPT ![field] = HashInsert(@, title, max)]
    /\ ret' = NoRet
    /\ UNCHANGED <<border_and_titleblock, defaultConductorProperties,
                   m_conductors_autonum_name, m_freeze_new_elements,
                   m_freeze_new_conductors_>>
    /\ UNCHANGED <<items, selected, pos, ends, readOnly, database, termConds, related>>
    /\ UNCHANGED renderVars
    /\ UNCHANGED editVars

(***************************************************************************)
(* The rendering options.  The accessors are inline in diagram.h and in    *)
(* bordertitleblock.h: each reads or writes the member of its name.        *)
(***************************************************************************)
displayGrid == draw_grid_
useBorder == use_border_
drawTerminals == draw_terminals_
drawColoredConductors == draw_colored_conductors_
borderIsDisplayed == display_border_
titleBlockIsDisplayed == display_titleblock_

BorderArea == "BorderArea"
ElementsArea == "ElementsArea"

(* ExportProperties, the six rendering options. *)
ExportProperties(dg, db, dtb, dt, dcc, area) ==
    [draw_grid |-> dg, draw_border |-> db, draw_titleblock |-> dtb,
     draw_terminals |-> dt, draw_colored_conductors |-> dcc, exported_area |-> area]

(* Diagram::setDrawTerminals: shows or hides the terminals among items();
   the terminals are the children of the elements of the diagram. *)
SetDrawTerminals(dt) ==
    [t \in Terminals |-> IF parentItem(t) \in items THEN dt ELSE visible[t]]

(* old_properties, the value applyProperties returns. *)
OldProperties ==
    ExportProperties(displayGrid, borderIsDisplayed, titleBlockIsDisplayed,
                     drawTerminals, drawColoredConductors,
                     IF useBorder THEN BorderArea ELSE ElementsArea)

(***************************************************************************)
(* Diagram::applyProperties(new_properties).  origin tells whether the     *)
(* caller hands in the value a previous call returned, and remembers the   *)
(* options that were in effect before that previous call.                  *)
(***************************************************************************)
(* The rendering options in effect: what is drawn, and the exported area. *)
OptionsInEffect ==
    ExportProperties(draw_grid_, display_border_, display_titleblock_,
                     \A t \in Terminals : parentItem(t) \in items => visible[t],
                     draw_colored_conductors_,
                     IF use_border_ THEN BorderArea ELSE ElementsArea)

applyProperties(new_properties, origin) ==
    /\ use_border_' = (new_properties.exported_area = BorderArea)
    /\ visible' = SetDrawTerminals(new_properties.draw_terminals)
    /\ draw_colored_conductors_' = new_properties.draw_colored_conductors
    /\ draw_grid_' = new_properties.draw_grid
    /\ display_border_' = new_properties.draw_border
    /\ display_titleblock_' = new_properties.draw_titleblock
    /\ ret' = [op |-> "applyProperties",
               old_properties |-> OldProperties,
               new_properties |-> new_properties,
               before |-> OptionsInEffect,
               origin |-> origin]
    /\ UNCHANGED draw_terminals_
    /\ UNCHANGED <<items, selected, pos, ends, readOnly, database, termConds, related>>
    /\ UNCHANGED infoVars
    /\ UNCHANGED editVars

(***************************************************************************)
(* Diagram::Diagram: the diagram after construction: no item, the default  *)
(* informations.                                                           *)
(***************************************************************************)
(* QGraphicsItem's z value of a new item. *)
DefaultZ == 0

InitDiagramWith(z) ==
    /\ items = {}
    /\ selected = {}
    /\ pos = [i \in AllItems |-> Origin]
    /\ ends = InitialEnds
    /\ database = {}
    /\ termConds = [t \in Terminals |-> {}]
    /\ border_and_titleblock = FreshInfo.border_and_titleblock
    /\ defaultConductorProperties = FreshInfo.defaultConductorProperties
    /\ m_conductors_autonum_name = FreshInfo.m_conductors_autonum_name
    /\ m_freeze_new_elements = FreshInfo.m_freeze_new_elements
    /\ m_freeze_new_conductors_ = FreshInfo.m_freeze_new_conductors_
    /\ folio_max = FreshInfo.folio_max
    /\ draw_grid_ = TRUE
    /\ use_border_ = TRUE
    /\ draw_terminals_ = TRUE
    /\ draw_colored_conductors_ = TRUE
    /\ display_border_ = TRUE
    /\ display_titleblock_ = TRUE
    /\ visible = [t \in Terminals |-> TRUE]
    /\ m_event_interface = Null
    /\ zValue = z
    /\ undo_stack = << >>
    /\ undo_index = 0
    /\ ret = NoRet

InitDiagram == InitDiagramWith([i \in AllItems |-> DefaultZ])

(* A new diagram is constructed; the caller keeps the document it holds. *)
NewDiagram ==
    /\ items' = {}
    /\ selected' = {}
    /\ pos' = [i \in AllItems |-> Origin]
    /\ ends' = InitialEnds
    /\ database' = {}
    /\ termConds' = [t \in Terminals |-> {}]
    /\ border_and_titleblock' = FreshInfo.border_and_titleblock
    /\ defaultConductorProperties' = FreshInfo.defaultConductorProperties
    /\ m_conductors_autonum_name' = FreshInfo.m_conductors_autonum_name
    /\ m_freeze_new_elements' = FreshInfo.m_freeze_new_elements
    /\ m_freeze_new_conductors_' = FreshInfo.m_freeze_new_conductors_
    /\ folio_max' = FreshInfo.folio_max
    /\ ret' = IF ret.op \in {"toXml", "document"}
              THEN [ret EXCEPT !.op = "document"] ELSE NoRet
    /\ draw_grid_' = TRUE
    /\ use_border_' = TRUE
    /\ draw_terminals_' = TRUE
    /\ draw_colored_conductors_' = TRUE
    /\ display_border_' = TRUE
    /\ display_titleblock_' = TRUE
    /\ visible' = [t \in Terminals |-> TRUE]
    /\ m_event_interface' = Null
    /\ zValue' = [i \in AllItems |-> DefaultZ]
    /\ undo_stack' = << >>
    /\ undo_index' = 0
    /\ UNCHANGED <<readOnly, related>>

(***************************************************************************)
(* Potential grouping: any relation between conductors, a diagram whose    *)
(* conductors come and go, and potentials() called at any time.            *)
(***************************************************************************)
InitPot ==
    /\ InitDiagram
    /\ readOnly = FALSE
    /\ related \in [Conductors -> SUBSET Conductors]
    /\ \A c \in Conductors : c \notin related[c]

AddConductor == \E c \in Conductors : addItem(c)
RemoveConductor == \E c \in Conductors : c \in items /\ removeItem(c)

NextPot ==
    \/ AddConductor
    \/ RemoveConductor
    \/ potentials

SpecPot == InitPot /\ [][NextPot]_vars

(***************************************************************************)
(* C1: potentials() covers the diagram: an empty list when the diagram has *)
(* no conductor; otherwise every conductor of the diagram is in at least   *)
(* one returned set, and no returned set is empty.                         *)
(***************************************************************************)
PotentialsCoverDiagram ==
    ret.op = "potentials" =>
        /\ (ret.conductors = {} => ret.potential_List = <<>>)
        /\ \A c \in ret.conductors :
               \E i \in 1..Len(ret.potential_List) : c \in ret.potential_List[i]
        /\ \A i \in 1..Len(ret.potential_List) : ret.potential_List[i] # {}

PotentialsCoverWitness ==
    /\ ret.op = "potentials"
    /\ Cardinality(ret.conductors) >= 2
    /\ Len(ret.potential_List) >= 2
    /\ \E i \in 1..Len(ret.potential_List) : Cardinality(ret.potential_List[i]) >= 2

(***************************************************************************)
(* C2: when relatedPotentialConductors() is symmetric and transitive, the  *)
(* returned sets are pairwise disjoint and there are as many of them as    *)
(* there are distinct potentials among the diagram's conductors.           *)
(***************************************************************************)
RelatedIsEquivalence ==
    \A c1, c2 \in Conductors :
        c2 \in related[c1] => ({c2} \cup related[c2]) = ({c1} \cup related[c1])

PotentialsPartition ==
    (ret.op = "potentials" /\ RelatedIsEquivalence) =>
        /\ \A i, j \in 1..Len(ret.potential_List) :
               i # j => ret.potential_List[i] \cap ret.potential_List[j] = {}
        /\ Len(ret.potential_List) =
               Cardinality({ {c} \cup related[c] : c \in ret.conductors })

PotentialsPartitionWitness ==
    /\ ret.op = "potentials"
    /\ RelatedIsEquivalence
    /\ Cardinality(ret.conductors) = NumConductors
    /\ Len(ret.potential_List) = 2

(***************************************************************************)
(* XML round trip of the informations: the flags and the tables are set,   *)
(* the diagram is exported, and the document is imported into the same     *)
(* diagram or into a new one.                                              *)
(***************************************************************************)
NoSource == [exported |-> FALSE]

InitXml ==
    /\ InitDiagram
    /\ readOnly = FALSE
    /\ related = [c \in Conductors |-> {}]

SetFreezeNewElements == \E b \in BOOLEAN : setFreezeNewElements(b)
SetFreezeNewConductors == \E b \in BOOLEAN : setFreezeNewConductors(b)
InsertFolioSeqHash ==
    \E field \in FolioFieldNames, title \in Titles, max \in FolioLists :
        insertFolioSeqHash(field, title, max)
ExportDiagram == \E whole_content \in BOOLEAN : toXml(whole_content)
ImportDocument ==
    /\ ret.op \in {"toXml", "document"}
    /\ \E consider_informations \in BOOLEAN :
           fromXml(ret.document, Origin, consider_informations, NullContent, FALSE,
                   [exported |-> TRUE, whole_content |-> ret.whole_content,
                    info |-> ret.source])

NextXml ==
    \/ SetFreezeNewElements
    \/ SetFreezeNewConductors
    \/ InsertFolioSeqHash
    \/ ExportDiagram
    \/ NewDiagram
    \/ ImportDocument

SpecXml == InitXml /\ [][NextXml]_vars

(* The import of a whole-content export, informations considered. *)
RoundTripDone ==
    /\ ret.op = "fromXml"
    /\ ret.source.exported
    /\ ret.source.whole_content
    /\ ret.consider_informations

(***************************************************************************)
(* C3: after toXml(whole_content = true) and fromXml(consider_informations *)
(* = true) of that XML, freezeNewElements() and freezeNewConductors() are  *)
(* those of the exported diagram.                                          *)
(***************************************************************************)
FreezeFlagsRoundTrip ==
    RoundTripDone =>
        /\ m_freeze_new_elements = ret.source.info.m_freeze_new_elements
        /\ m_freeze_new_conductors_ = ret.source.info.m_freeze_new_conductors_

(***************************************************************************)
(* C4: after toXml(whole_content = true) and fromXml(consider_informations *)
(* = true) of that XML into a fresh diagram, each of the six tables holds  *)
(* the titles of the exported table, each with the same values in the same *)
(* order.                                                                  *)
(***************************************************************************)
FolioSequentialsRoundTrip ==
    (RoundTripDone /\ ret.before.info = FreshInfo) =>
        folio_max = ret.source.info.folio_max

FolioSequentialsRoundTripWitness ==
    /\ RoundTripDone
    /\ ret.before.info = FreshInfo
    /\ ret.result
    /\ \E f \in FolioFieldNames :
           /\ DOMAIN folio_max[f] = Titles
           /\ \E t \in Titles : Len(folio_max[f][t]) = MaxSeqLen

(***************************************************************************)
(* Import.  Documents as a file or the clipboard can hold them are         *)
(* imported into a diagram of a writable or of a read-only project: at     *)
(* their own place, the informations considered or not (SpecImport), or at *)
(* a position, as a paste does it, the caller asking for the content       *)
(* (SpecPaste).                                                            *)
(***************************************************************************)
InformationAttrs ==
    [n \in {"border", "conductorAutonum", "freezeNewElement", "freezeNewConductor"} |->
        CASE n = "border" -> "A3"
          [] n = "conductorAutonum" -> "auto1"
          [] n = "freezeNewElement" -> "1"
          [] n = "freezeNewConductor" -> "true"]

XmlItem(tag, uuid, x, y) ==
    DomElement(tag,
        [n \in {"uuid", "x", "y"} |->
            CASE n = "uuid" -> uuid [] n = "x" -> Number(x) [] n = "y" -> Number(y)],
        <<>>)

XmlElement(uuid, type, x, y) ==
    [XmlItem("element", uuid, x, y) EXCEPT !.attrs = SetAttribute(@, "type", type)]

XmlConductor(element1, t1, element2, t2) ==
    DomElement("conductor",
        [n \in {"element1", "terminal1", "element2", "terminal2"} |->
            CASE n = "element1" -> element1 [] n = "terminal1" -> t1
              [] n = "element2" -> element2 [] n = "terminal2" -> t2],
        <<>>)

(* The informations alone: the root has no child. *)
DocInformations == DomElement("diagram", InformationAttrs, <<>>)

(* A whole diagram: informations, two linked elements and a text. *)
DocDiagram ==
    DomElement("diagram", InformationAttrs,
        << DomElement("defaultconductor",
                      SetAttribute(NoAttrs, "properties", "red"), <<>>),
           DomElement(ElmtGroup, NoAttrs,
               << DomElement("elementunitfolioseq", NoAttrs,
                      << DomElement("unitfolioseq",
                             FolioSeqAttrs("T1", <<"4">>, "sequf_"), <<>>) >>) >>),
           DomElement("elements", NoAttrs,
               << XmlElement("a", "embed://symbol", 0, 0),
                  XmlElement("b", "embed://symbol", 10, 20) >>),
           DomElement("conductors", NoAttrs,
               << XmlConductor("a", "terminal-1", "b", "terminal-2") >>),
           DomElement("inputs", NoAttrs, << XmlItem("input", "t", 3, 3) >>) >>)

(* A copied selection: the project id, a text and a shape. *)
DocPaste ==
    DomElement("diagram", SetAttribute(NoAttrs, "projectId", Number(ProjectId)),
        << DomElement("inputs", NoAttrs, << XmlItem("input", "t", 3, 3) >>),
           DomElement("shapes", NoAttrs, << XmlItem("shape", "s", 13, 20) >>) >>)

(* Items that do not load: an element without type, one of an unknown
   type, one whose terminals do not match; a conductor between the only
   element that loads and an element that does not, and one whose two
   ends are the same terminal. *)
DocBroken ==
    DomElement("diagram", NoAttrs,
        << DomElement("elements", NoAttrs,
               << XmlItem("element", "a", 0, 0),
                  XmlElement("b", "embed://unknown", 0, 0),
                  [XmlElement("c", "embed://symbol", 0, 0) EXCEPT
                      !.attrs = SetAttribute(@, "terminals", "mismatch")],
                  XmlElement("d", "embed://symbol", 7, 7) >>),
           DomElement("conductors", NoAttrs,
               << XmlConductor("d", "terminal-1", "c", "terminal-2"),
                  XmlConductor("d", "terminal-1", "d", "terminal-1"),
                  XmlConductor("d", "terminal-1", "d", "terminal-9") >>),
           DomElement("images", NoAttrs, << XmlItem("image", "i", 2, 9) >>),
           DomElement("tables", NoAttrs, << XmlItem("table", "g", 30, 30) >>),
           DomElement("terminal_strip_items", NoAttrs,
               << XmlItem("terminal_strip_item", "s", 40, 1) >>) >>)

(* Not a diagram: the root carries another tag. *)
DocProject == [DocDiagram EXCEPT !.tagName = "project"]

Documents == {DocInformations, DocDiagram, DocPaste, DocBroken, DocProject}
Positions == {Origin, Point(20, 10), Point(5, 5)}

InitImport ==
    /\ InitDiagram
    /\ readOnly \in BOOLEAN
    /\ related = [c \in Conductors |-> {}]

SetConductorsAutonumName == \E name \in {"", "auto2"} : setConductorsAutonumName(name)

Import ==
    \E root \in Documents, consider_informations \in BOOLEAN,
       content_ptr \in {NullContent, EmptyContent} :
        fromXml(root, Origin, consider_informations, content_ptr, FALSE, NoSource)

Paste ==
    \E root \in Documents, position \in Positions, control \in BOOLEAN :
        fromXml(root, position, FALSE, EmptyContent, control, NoSource)

NextImport ==
    \/ Import
    \/ SetConductorsAutonumName

SpecImport == InitImport /\ [][NextImport]_vars

NextPaste ==
    \/ Paste
    \/ SetFreezeNewConductors

SpecPaste == InitImport /\ [][NextPaste]_vars

(* The items the last fromXml added to the diagram. *)
AddedItems == items \ ret.before.items

(***************************************************************************)
(* C5: fromXml returns false when the tag of the root is not "diagram",    *)
(* and then nothing of the diagram changes: no item is added and the       *)
(* informations keep their values, whatever consider_informations is.      *)
(***************************************************************************)
FromXmlRejectsOtherTag ==
    (ret.op = "fromXml" /\ ret.tagName # "diagram") =>
        /\ ret.result = FALSE
        /\ items = ret.before.items
        /\ Info = ret.before.info

FromXmlRejectsOtherTagWitness ==
    /\ ret.op = "fromXml"
    /\ ret.tagName # "diagram"
    /\ ret.consider_informations
    /\ ~readOnly
    /\ items # {}
    /\ Info # FreshInfo
    /\ m_conductors_autonum_name = "auto2"

(***************************************************************************)
(* C6: when fromXml is given a position, after the import the upper-left   *)
(* corner of the bounding rectangle of the items added by this import is   *)
(* at that position.                                                       *)
(***************************************************************************)
ImportedAtPosition ==
    (ret.op = "fromXml" /\ ret.result /\ ret.position # Origin /\ AddedItems # {}) =>
        TopLeft(pos, ends, AddedItems) = ret.position

(***************************************************************************)
(* C7: when fromXml is called with a content_ptr and returns true, the     *)
(* content holds exactly the items this import added to the diagram, and   *)
(* no item that is not in the diagram.                                     *)
(***************************************************************************)
ContentIsWhatWasAdded ==
    (ret.op = "fromXml" /\ ret.result /\ ~ret.content_ptr.null) =>
        /\ ContentItems(ret.content) = AddedItems
        /\ ContentItems(ret.content) \subseteq items

(***************************************************************************)
(* C8: fromXml with consider_informations = false changes none of the      *)
(* informations (border and title block, default conductor properties,     *)
(* conductor autonum name, freeze flags, folio sequentials); it only adds  *)
(* items.                                                                  *)
(***************************************************************************)
FromXmlIgnoresInformations ==
    (ret.op = "fromXml" /\ ~ret.consider_informations) =>
        /\ Info = ret.before.info
        /\ ret.before.items \subseteq items

FromXmlIgnoresInformationsWitness ==
    /\ ret.op = "fromXml"
    /\ ~ret.consider_informations
    /\ ret.result
    /\ ret.tagName = "diagram"
    /\ AddedItems # {}
    /\ Info = FreshInfo


(***************************************************************************)
(* Selection and export.  The diagram is filled as fromXml fills it: the   *)
(* elements first, then the other items and the conductors, so that a      *)
(* conductor of the diagram has its two elements in the diagram; no item   *)
(* is removed.  Items are selected and deselected, and the diagram is      *)
(* exported, whole or selection only.                                      *)
(***************************************************************************)
LoadOrder ==
    SetOrder(Elements)
    \o << <<"IndependentTextItem", 1>>, <<"DiagramImageItem", 1>>, <<"QetShapeItem", 1>> >>
    \o SetOrder(Conductors)
    \o << <<"QetGraphicsTableItem", 1>>, <<"TerminalStripItem", 1>> >>

InitSelect ==
    /\ InitDiagram
    /\ readOnly = FALSE
    /\ related = [c \in Conductors |-> {}]

AddNextItem ==
    \E i \in 1..Len(LoadOrder) :
        /\ LoadOrder[i] \notin items
        /\ \A j \in 1..(i - 1) : LoadOrder[j] \in items
        /\ addItem(LoadOrder[i])

SetSelected == \E item \in items, sel \in BOOLEAN : setSelected(item, sel)

NextSelect ==
    \/ AddNextItem
    \/ SetSelected
    \/ selectAll
    \/ deselectAll
    \/ invertSelection
    \/ ExportDiagram

SpecSelect == InitSelect /\ [][NextSelect]_vars

(* The tags under which toXml lists the items other than conductors. *)
ItemTags ==
    << [type |-> "Element", parent |-> "elements", tag |-> "element"],
       [type |-> "IndependentTextItem", parent |-> "inputs", tag |-> "input"],
       [type |-> "DiagramImageItem", parent |-> "images", tag |-> "image"],
       [type |-> "QetShapeItem", parent |-> "shapes", tag |-> "shape"],
       [type |-> "QetGraphicsTableItem", parent |-> "tables", tag |-> "table"],
       [type |-> "TerminalStripItem", parent |-> "terminal_strip_items",
        tag |-> "terminal_strip_item"] >>

(* The uuids a document lists under a tag, and the ends of its conductors. *)
DocUuids(document, parent, tag) ==
    LET nodes == FindInDomElement(document, parent, tag)
    IN  {Attribute(nodes[i], "uuid") : i \in 1..Len(nodes)}

DocConductors(document) == FindInDomElement(document, "conductors", "conductor")

ConductorEnds(node) ==
    << Attribute(node, "element1"), Attribute(node, "terminal1"),
       Attribute(node, "element2"), Attribute(node, "terminal2") >>

EndsOf(c) ==
    << Uuid(parentItem(terminal1(c))), TerminalUuid(terminal1(c)),
       Uuid(parentItem(terminal2(c))), TerminalUuid(terminal2(c)) >>

BothEndsSelected(c) ==
    parentItem(terminal1(c)) \in selected /\ parentItem(terminal2(c)) \in selected

DiagramPropertyAttributes ==
    {"border", "conductorAutonum", "freezeNewElement", "freezeNewConductor"}
DiagramPropertyTags == {"defaultconductor", ElmtGroup, CndGroup}

AllShown == ExportProperties(TRUE, TRUE, TRUE, TRUE, TRUE, BorderArea)
NothingShown == ExportProperties(FALSE, FALSE, FALSE, FALSE, FALSE, ElementsArea)

(* The options a caller applies: all, none, and all but one. *)
Properties ==
    {AllShown, NothingShown}
    \cup {[AllShown EXCEPT ![o] = FALSE] :
             o \in {"draw_grid", "draw_border", "draw_titleblock", "draw_terminals",
                    "draw_colored_conductors"}}
    \cup {[AllShown EXCEPT !.exported_area = ElementsArea]}

FirstCall == [returned |-> FALSE]

InitProps ==
    /\ InitDiagram
    /\ readOnly = FALSE
    /\ related = [c \in Conductors |-> {}]

AddElement == \E e \in Elements : e \notin items /\ addItem(e)

ApplyProperties == \E new_properties \in Properties : applyProperties(new_properties, FirstCall)

ApplyReturned ==
    /\ ret.op = "applyProperties"
    /\ ~ret.origin.returned
    /\ applyProperties(ret.old_properties, [returned |-> TRUE, before |-> ret.before])

NextProps ==
    \/ AddElement
    \/ ApplyProperties
    \/ ApplyReturned

SpecProps == InitProps /\ [][NextProps]_vars

(***************************************************************************)
(* C10: applyProperties(p) returns the rendering options in effect before  *)
(* the call, so that applyProperties(p) followed by applyProperties of the *)
(* returned value restores each of the six options (grid, border, title    *)
(* block, terminals, colored conductors, exported area) to the value it    *)
(* had before the first call.                                              *)
(***************************************************************************)
ApplyReturnedRestores ==
    /\ (ret.op = "applyProperties" => ret.old_properties = ret.before)
    /\ (ret.op = "applyProperties" /\ ret.origin.returned) =>
           OptionsInEffect = ret.origin.before

(***************************************************************************)
(* Item lifecycle.  Items of every kind, and the null pointer, are handed  *)
(* to addItem and removeItem of a diagram whose project is writable or     *)
(* read-only, and the diagram is asked whether it is empty.  The caller    *)
(* remembers the call it made and the scene it made it on.                 *)
(***************************************************************************)
(* The items handed to the diagram: the elements, the conductors, a text
   and an image. *)
LifecycleItems ==
    Elements \cup Conductors \cup {<<"IndependentTextItem", 1>>, <<"DiagramImageItem", 1>>}

Scene == [items |-> items, database |-> database, termConds |-> termConds]

Called(op, item) == [op |-> op, item |-> item, before |-> Scene]

InitItems ==
    /\ InitDiagram
    /\ readOnly = FALSE
    /\ related = [c \in Conductors |-> {}]

AddItem == \E item \in LifecycleItems \cup {Null} : addItemCalled(item, Called("addItem", item))

RemoveItem ==
    \E item \in LifecycleItems \cup {Null} :
        removeItemCalled(item, Called("removeItem", item))

SetReadOnly == \E read_only \in BOOLEAN : read_only # readOnly /\ setReadOnly(read_only)

NextItems ==
    \/ AddItem
    \/ RemoveItem
    \/ SetReadOnly
    \/ isEmpty

SpecItems == InitItems /\ [][NextItems]_vars

(***************************************************************************)
(* C11: isEmpty() returns true exactly when the diagram contains no        *)
(* element, no conductor and no text field, and false otherwise.           *)
(***************************************************************************)
IsEmptyMeansNoContent ==
    ret.op = "isEmpty" => (ret.result <=> IsEmptyOfContent(items))

(***************************************************************************)
(* C15: while the project is read-only, addItem and removeItem are no-ops: *)
(* the items of the diagram, the conductor lists of all the terminals and  *)
(* the element database of the project are what they were before the call; *)
(* addItem is also a no-op for a null item and for an item that is already *)
(* in the diagram.                                                         *)
(***************************************************************************)
ReadOnlyNoOp ==
    /\ (ret.op \in {"addItem", "removeItem"} /\ readOnly) => Scene = ret.before
    /\ (ret.op = "addItem" /\ (ret.item = Null \/ ret.item \in ret.before.items)) =>
           Scene = ret.before

ReadOnlyNoOpWitness ==
    /\ readOnly
    /\ ret.op = "removeItem"
    /\ ret.item \in Conductors \cap items
    /\ ret.item \in termConds[terminal1(ret.item)]
    /\ database # {}

SubPixel == 2
MaxCoord == 7
MaxGrid == 3

(* qRound(n / d) of the Qt versions that round a half away from zero. *)
QRoundDivAway(n, d) == IF n >= 0 THEN QRoundDiv(n, d) ELSE 0 - QRoundDiv(0 - n, d)

QRoundOf(n, d, halfAway) == IF halfAway THEN QRoundDivAway(n, d) ELSE QRoundDiv(n, d)

(* One coordinate of snapToGrid: n and the result in units of 1 / SubPixel. *)
SnapCoordinate(n, step, control, halfAway) ==
    IF control
    THEN QRoundOf(n, SubPixel, halfAway) * SubPixel
    ELSE QRoundOf(n, SubPixel * step, halfAway) * step * SubPixel

SnapToGridAt(p, x_grid, y_grid, control, halfAway) ==
    Point(SnapCoordinate(p.x, x_grid, control, halfAway),
          SnapCoordinate(p.y, y_grid, control, halfAway))

Coordinates == (0 - MaxCoord * SubPixel) .. (MaxCoord * SubPixel)
GridSteps == (1 .. MaxGrid) \cup {xGrid, yGrid}

(* The point under the cursor, the keyboard modifier and the settings. *)
pointAt(p, x_grid, y_grid, control, halfAway) ==
    /\ ret' = [op |-> "pointAt", p |-> p, xGrid |-> x_grid, yGrid |-> y_grid,
               control |-> control, halfAway |-> halfAway]
    /\ UNCHANGED <<items, selected, pos, ends, readOnly, database, termConds, related>>
    /\ UNCHANGED renderVars
    /\ UNCHANGED editVars
    /\ UNCHANGED infoVars

PointAt ==
    /\ ret = NoRet
    /\ \E x \in Coordinates, y \in Coordinates, x_grid \in GridSteps, y_grid \in GridSteps,
          control \in BOOLEAN, halfAway \in BOOLEAN :
           pointAt(Point(x, y), x_grid, y_grid, control, halfAway)

(* snapToGrid(p), and snapToGrid of its result under the same modifier
   and grid. *)
snapToGrid ==
    /\ ret.op = "pointAt"
    /\ \E r \in {SnapToGridAt(ret.p, ret.xGrid, ret.yGrid, ret.control, ret.halfAway)} :
         ret' = [op |-> "snapToGrid", p |-> ret.p, xGrid |-> ret.xGrid, yGrid |-> ret.yGrid,
                 control |-> ret.control, result |-> r,
                 again |-> SnapToGridAt(r, ret.xGrid, ret.yGrid, ret.control, ret.halfAway)]
    /\ UNCHANGED <<items, selected, pos, ends, readOnly, database, termConds, related>>
    /\ UNCHANGED renderVars
    /\ UNCHANGED editVars
    /\ UNCHANGED infoVars

NextSnap == PointAt \/ snapToGrid
SpecSnap == InitItems /\ [][NextSnap]_vars

Distance(a, b) == IF a >= b THEN a - b ELSE b - a

(* r is a multiple of unit and at most half a unit away from n. *)
NearestMultiple(r, n, unit) == r % unit = 0 /\ 2 * Distance(r, n) <= unit

(* C12: without Control each coordinate of snapToGrid(p) is a multiple of
   its grid step at most half a step away from p's coordinate; with Control
   it is p's coordinate rounded to the nearest integer; and snapping the
   result again under the same modifier and grid gives the same point. *)
SnapIsNearest ==
    ret.op = "snapToGrid" =>
        /\ NearestMultiple(ret.result.x, ret.p.x,
                           IF ret.control THEN SubPixel ELSE ret.xGrid * SubPixel)
        /\ NearestMultiple(ret.result.y, ret.p.y,
                           IF ret.control THEN SubPixel ELSE ret.yGrid * SubPixel)
        /\ ret.again = ret.result

(* A point off the grid, with a negative coordinate halfway between two
   grid lines, was snapped without Control. *)
SnapIsNearestWitness ==
    /\ ret.op = "snapToGrid"
    /\ ~ret.control
    /\ ret.xGrid > 1
    /\ ret.p.x < 0
    /\ 2 * Distance(ret.result.x, ret.p.x) = ret.xGrid * SubPixel
    /\ ret.result.y # ret.p.y

(***************************************************************************)
(* The event handlers of the diagram and the event interface.  What an     *)
(* interface does with an event is its own code: it accepts the event or   *)
(* not, and it may emit finish, on which the diagram deletes it.  A        *)
(* handler's steps are listed in the order the code takes them.            *)
(***************************************************************************)
NumInterfaces == 2
MaxPosition == 11

Interfaces == {<<"DiagramEventInterface", i>> : i \in 1..NumInterfaces}

xKeyGrid == 10
yKeyGrid == 10
xKeyGridFine == 1
yKeyGridFine == 1
EdgeLimit == 5

Keys == {"Key_Left", "Key_Right", "Key_Up", "Key_A"}
ArrowKeys == {"Key_Left", "Key_Right", "Key_Up", "Key_Down"}
Modifiers == {"NoModifier", "AltModifier", "ControlModifier"}

(* m_event_interface->...Event(event): the interface, if any, gets the
   event; the lambda connected to its finish signal deletes it. *)
InterfaceSteps(finishes) ==
    IF m_event_interface = Null THEN << >>
    ELSE IF finishes THEN <<"interface", "finish">> ELSE <<"interface">>

(* event->isAccepted() after the interface had the event. *)
IsAccepted(accepts) == m_event_interface # Null /\ accepts

(* The handler without its early return: the default handling follows
   whatever the interface answered. *)
DispatchAlways(accepts, finishes, default) ==
    <<"setAccepted(false)">> \o InterfaceSteps(finishes) \o <<"default">> \o default

(* The steps shared by the seven handlers; default lists those of the
   handling that follows the interface. *)
Dispatch(accepts, finishes, default) ==
    <<"setAccepted(false)">> \o InterfaceSteps(finishes)
    \o (IF IsAccepted(accepts) THEN << >> ELSE <<"default">> \o default)

(* DiagramContent dc(this): the selected items of the diagram. *)
SelectedContent == selected \cap items

KeyGridOf(modifiers) ==
    IF modifiers = "NoModifier" THEN Point(xKeyGrid, yKeyGrid)
    ELSE Point(xKeyGridFine, yKeyGridFine)

MovementOf(key, grid) ==
    CASE key = "Key_Left"  -> Point(0 - grid.x, 0)
      [] key = "Key_Right" -> Point(grid.x, 0)
      [] key = "Key_Up"    -> Point(0, 0 - grid.y)
      [] key = "Key_Down"  -> Point(0, grid.y)
      [] OTHER             -> Origin

(* A selected element is at the left or top edge (sceneBoundingRect is
   taken at the element's position). *)
AtEdge(key) ==
    \/ key = "Key_Left" /\ \E e \in SelectedContent \cap Elements : pos[e].x <= EdgeLimit
    \/ key = "Key_Up" /\ \E e \in SelectedContent \cap Elements : pos[e].y <= EdgeLimit

(* keyPressEvent after the interface: the movement of the selected items
   with the arrow keys.  No item of the model is a group of element
   texts, so Control aligns nothing. *)
KeyPressDefault(key, modifiers, focusItem) ==
    IF isReadOnly THEN << >>
    ELSE IF SelectedContent = {} THEN <<"ignore", "QGraphicsScene">>
    ELSE IF modifiers \in {"NoModifier", "AltModifier"}
    THEN IF AtEdge(key) THEN << >>
         ELSE IF MovementOf(key, KeyGridOf(modifiers)) # Origin /\ ~focusItem
         THEN <<"beginMovement", "continueMovement", "accept">>
         ELSE <<"ignore", "QGraphicsScene">>
    ELSE <<"ignore", "QGraphicsScene">>

(* keyReleaseEvent after the interface. *)
KeyReleaseDefault(key, autoRepeat) ==
    IF ~isReadOnly /\ key \in ArrowKeys /\ ~autoRepeat
    THEN <<"endMovement", "accept">>
    ELSE <<"QGraphicsScene">>

(* ElementsMover::continueMovement: the selected items are displaced. *)
Moved(movement) ==
    [i \in AllItems |-> IF i \in SelectedContent
                        THEN Point(pos[i].x + movement.x, pos[i].y + movement.y)
                        ELSE pos[i]]

InArea(p) ==
    \A i \in AllItems : /\ p[i].x \in (0 - MaxPosition) .. MaxPosition
                        /\ p[i].y \in (0 - MaxPosition) .. MaxPosition

(* What an interface can answer; without interface there is no answer. *)
Answers == IF m_event_interface = Null THEN {FALSE} ELSE BOOLEAN

(* One handler run as a whole. *)
handleEvent(kind, accepts, trace, movement) ==
    /\ "continueMovement" \in Range(trace) => InArea(Moved(movement))
    /\ pos' = IF "continueMovement" \in Range(trace) THEN Moved(movement) ELSE pos
    /\ m_event_interface' = IF "finish" \in Range(trace) THEN Null ELSE m_event_interface
    /\ ret' = [op |-> kind, interface |-> m_event_interface,
               accepted |-> IsAccepted(accepts), trace |-> trace,
               displaced |-> pos' # pos]
    /\ UNCHANGED <<items, selected, ends, readOnly, database, termConds, related>>
    /\ UNCHANGED <<zValue, undo_stack, undo_index>>
    /\ UNCHANGED renderVars
    /\ UNCHANGED infoVars

sceneEvent(kind, accepts, finishes) ==
    handleEvent(kind, accepts, Dispatch(accepts, finishes, <<"QGraphicsScene">>), Origin)

mouseDoubleClickEvent == \E accepts \in Answers, finishes \in Answers :
    sceneEvent("mouseDoubleClickEvent", accepts, finishes)
mousePressEvent == \E accepts \in Answers, finishes \in Answers :
    sceneEvent("mousePressEvent", accepts, finishes)
mouseMoveEvent == \E accepts \in Answers, finishes \in Answers :
    sceneEvent("mouseMoveEvent", accepts, finishes)
mouseReleaseEvent == \E accepts \in Answers, finishes \in Answers :
    sceneEvent("mouseReleaseEvent", accepts, finishes)
wheelEvent == \E accepts \in Answers, finishes \in Answers :
    sceneEvent("wheelEvent", accepts, finishes)

keyPressEvent ==
    \E accepts \in Answers, finishes \in Answers, key \in Keys,
       modifiers \in Modifiers, focusItem \in BOOLEAN :
        handleEvent("keyPressEvent", accepts,
                    Dispatch(accepts, finishes, KeyPressDefault(key, modifiers, focusItem)),
                    MovementOf(key, KeyGridOf(modifiers)))

keyReleaseEvent ==
    \E accepts \in Answers, finishes \in Answers, key \in Keys, autoRepeat \in BOOLEAN :
        handleEvent("keyReleaseEvent", accepts,
                    Dispatch(accepts, finishes, KeyReleaseDefault(key, autoRepeat)), Origin)

(* Diagram::setEventInterface. *)
SetEventInterfaceSteps ==
    (IF m_event_interface # Null THEN <<"delete", "init">> ELSE << >>)
    \o <<"install", "connect">>

setEventInterface(event_interface) ==
    /\ m_event_interface' = event_interface
    /\ ret' = [op |-> "setEventInterface", event_interface |-> event_interface,
               previous |-> m_event_interface, trace |-> SetEventInterfaceSteps]
    /\ UNCHANGED <<items, selected, pos, ends, readOnly, database, termConds, related>>
    /\ UNCHANGED <<zValue, undo_stack, undo_index>>
    /\ UNCHANGED renderVars
    /\ UNCHANGED infoVars

(* Diagram::clearEventInterface. *)
clearEventInterface ==
    /\ m_event_interface' = Null
    /\ ret' = NoRet
    /\ UNCHANGED <<items, selected, pos, ends, readOnly, database, termConds, related>>
    /\ UNCHANGED <<zValue, undo_stack, undo_index>>
    /\ UNCHANGED renderVars
    /\ UNCHANGED infoVars

(* A diagram with one element, selected or not, writable or not, on which
   interfaces are installed and events arrive.  The caller hands over a
   new interface, never the installed one. *)
EventItems == {<<"Element", 1>>}

AddEventItem == \E item \in EventItems : item \notin items /\ addItem(item)
SelectEventItem == \E item \in EventItems, sel \in BOOLEAN :
    (item \in selected) # sel /\ setSelected(item, sel)
SetEventInterface ==
    \E event_interface \in Interfaces \ {m_event_interface} : setEventInterface(event_interface)
ClearEventInterface == m_event_interface # Null /\ clearEventInterface

NextEvents ==
    \/ AddEventItem
    \/ SelectEventItem
    \/ SetReadOnly
    \/ SetEventInterface
    \/ ClearEventInterface
    \/ mouseDoubleClickEvent
    \/ mousePressEvent
    \/ mouseMoveEvent
    \/ mouseReleaseEvent
    \/ wheelEvent
    \/ keyPressEvent
    \/ keyReleaseEvent

SpecEvents == InitItems /\ [][NextEvents]_vars

EventHandlers == {"mouseDoubleClickEvent", "mousePressEvent", "mouseMoveEvent",
                  "mouseReleaseEvent", "wheelEvent", "keyPressEvent", "keyReleaseEvent"}

DefaultSteps == {"default", "QGraphicsScene", "ignore", "accept",
                 "beginMovement", "continueMovement", "endMovement"}

(* The place of a step in a list of steps, 0 when it is not there. *)
StepAt(trace, step) ==
    IF step \in Range(trace) THEN CHOOSE k \in 1..Len(trace) : trace[k] = step ELSE 0

(* C13: every event handler first marks the event not accepted; an
   installed interface gets the event next, before any default handling;
   when it accepts the event there is no default handling, neither base
   scene handler nor keyboard movement, and nothing is displaced; when it
   does not accept, or none is installed, the default handling is run. *)
DispatchOrder ==
    ret.op \in EventHandlers =>
        /\ ret.trace[1] = "setAccepted(false)"
        /\ ret.interface # Null =>
             /\ ret.trace[2] = "interface"
             /\ \A k \in 1..Len(ret.trace) : ret.trace[k] \in DefaultSteps => k > 2
        /\ ret.interface = Null => "interface" \notin Range(ret.trace)
        /\ ret.accepted => Range(ret.trace) \cap DefaultSteps = {} /\ ~ret.displaced
        /\ ~ret.accepted =>
             /\ StepAt(ret.trace, "default") > 0
             /\ \A k \in 1..Len(ret.trace) :
                  ret.trace[k] \in DefaultSteps => k >= StepAt(ret.trace, "default")
        /\ ret.op \notin {"keyPressEvent", "keyReleaseEvent"} /\ ~ret.accepted =>
             "QGraphicsScene" \in Range(ret.trace)

(* An interface accepted a key press that would have moved the selected
   element. *)
DispatchOrderWitness ==
    /\ ret.op = "keyPressEvent"
    /\ ret.interface # Null
    /\ ret.accepted
    /\ ~isReadOnly
    /\ SelectedContent # {}
    /\ pos[<<"Element", 1>>].x > EdgeLimit

(* C14: setEventInterface(e) deletes the interface installed before, if
   any, before it installs e, calls init() on e, and leaves e as the
   interface of the diagram. *)
SetEventInterfaceInitialises ==
    ret.op = "setEventInterface" =>
        /\ ret.previous # Null =>
             /\ StepAt(ret.trace, "delete") > 0
             /\ StepAt(ret.trace, "delete") < StepAt(ret.trace, "install")
        /\ StepAt(ret.trace, "init") > 0
        /\ m_event_interface = ret.event_interface

(***************************************************************************)
(* Diagram::changeZValue and the undo stack.  A command lists the          *)
(* QPropertyUndoCommand children of the pushed QUndoCommand, each with     *)
(* the item and the old and new value of its property z.                   *)
(***************************************************************************)
MaxUndo == 2
MaxDepth == 1

(* Terminal::Z, the z value of the terminals. *)
TerminalZ == 1000

DepthOptions == {"Raise", "Lower", "BringForward", "SendBackward"}

(* DiagramContent::Elements | Shapes | Images. *)
DepthTypes == {"Element", "QetShapeItem", "DiagramImageItem"}

Max(S) == CHOOSE x \in S : \A y \in S : y <= x

(* The selected elements, shapes and images. *)
DepthList == {i \in SelectedContent : ItemType(i) \in DepthTypes}

(* The z values below the terminals, and maxz, minz which start at 0. *)
BelowTerminals == {zValue[i] : i \in {j \in items : zValue[j] < TerminalZ - 2}}
maxz == Max({0} \cup BelowTerminals)
minz == Min({0} \cup BelowTerminals)

(* The items of the list that get a child command, and its new value. *)
DepthChanged(option) ==
    IF option \in {"Raise", "Lower"}
    THEN {i \in DepthList : zValue[i] < TerminalZ - 2}
    ELSE DepthList

NewZ(option, z) ==
    CASE option = "Raise"        -> z + 1
      [] option = "Lower"        -> z - 1
      [] option = "BringForward" -> maxz + 1
      [] option = "SendBackward" -> minz - 1

ChildCommand(item, option) ==
    [item |-> item, old |-> zValue[item], new |-> NewZ(option, zValue[item])]

DepthCommand(option) ==
    [text |-> "Modifier la profondeur",
     children |-> {ChildCommand(i, option) : i \in DepthChanged(option)}]

(* QUndoCommand::redo and undo: every child sets the property z. *)
RedoCommand(z, command) ==
    [i \in AllItems |->
        IF \E c \in command.children : c.item = i
        THEN (CHOOSE c \in command.children : c.item = i).new
        ELSE z[i]]

(* The mutant of undo: the children restore nothing. *)
UndoNothing(z, command) == z

UndoCommand(z, command) ==
    [i \in AllItems |->
        IF \E c \in command.children : c.item = i
        THEN (CHOOSE c \in command.children : c.item = i).old
        ELSE z[i]]

(* What the caller saw before the operation. *)
Depths == [zValue |-> zValue, undo_stack |-> undo_stack, undo_index |-> undo_index,
           selected |-> SelectedContent]

(* QUndoStack::push drops the undone commands, appends the command and
   redoes it; a command without child is deleted instead. *)
changeZValue(option) ==
    /\ \E command \in {DepthCommand(option)} :
         IF command.children # {}
         THEN /\ undo_index < MaxUndo
              /\ \A c \in command.children : c.new >= 0 - MaxDepth
              /\ undo_stack' = Append(SubSeq(undo_stack, 1, undo_index), command)
              /\ undo_index' = undo_index + 1
              /\ zValue' = RedoCommand(zValue, command)
         ELSE UNCHANGED <<zValue, undo_stack, undo_index>>
    /\ ret' = [op |-> "changeZValue", option |-> option, before |-> Depths]
    /\ UNCHANGED <<items, selected, pos, ends, readOnly, database, termConds, related>>
    /\ UNCHANGED m_event_interface
    /\ UNCHANGED renderVars
    /\ UNCHANGED infoVars

(* QUndoStack::undo and redo. *)
undo ==
    /\ undo_index > 0
    /\ zValue' = UndoCommand(zValue, undo_stack[undo_index])
    /\ undo_index' = undo_index - 1
    /\ ret' = [op |-> "undo", command |-> undo_stack[undo_index], before |-> Depths]
    /\ UNCHANGED <<items, selected, pos, ends, readOnly, database, termConds, related>>
    /\ UNCHANGED <<m_event_interface, undo_stack>>
    /\ UNCHANGED renderVars
    /\ UNCHANGED infoVars

redo ==
    /\ undo_index < Len(undo_stack)
    /\ zValue' = RedoCommand(zValue, undo_stack[undo_index + 1])
    /\ undo_index' = undo_index + 1
    /\ ret' = [op |-> "redo", command |-> undo_stack[undo_index + 1], before |-> Depths]
    /\ UNCHANGED <<items, selected, pos, ends, readOnly, database, termConds, related>>
    /\ UNCHANGED <<m_event_interface, undo_stack>>
    /\ UNCHANGED renderVars
    /\ UNCHANGED infoVars

(* A diagram of an element, a shape and a text whose element was given
   any of these z values, as a loaded document gives them. *)
DepthItems == << <<"Element", 1>>, <<"QetShapeItem", 1>>, <<"IndependentTextItem", 1>> >>
ZValues == {DefaultZ, TerminalZ - 3}

InitDepth ==
    /\ \E z \in ZValues :
         InitDiagramWith([i \in AllItems |-> IF i = DepthItems[1] THEN z ELSE DefaultZ])
    /\ readOnly = FALSE
    /\ related = [c \in Conductors |-> {}]

AddDepthItem ==
    \E k \in 1..Len(DepthItems) :
        /\ DepthItems[k] \notin items
        /\ \A j \in 1..(k - 1) : DepthItems[j] \in items
        /\ addItem(DepthItems[k])

SelectDepthItem == \E item \in items, sel \in BOOLEAN :
    (item \in selected) # sel /\ setSelected(item, sel)

ChangeZValue == \E option \in DepthOptions : changeZValue(option)

NextDepth == AddDepthItem \/ SelectDepthItem \/ ChangeZValue \/ undo \/ redo

SpecDepth == InitDepth /\ [][NextDepth]_vars

(* The items whose z value the last operation changed. *)
ZChanged == {i \in AllItems : zValue[i] # ret.before.zValue[i]}

(* The selected items that qualify for the option. *)
Qualifying ==
    {i \in ret.before.selected :
        /\ ItemType(i) \in DepthTypes
        /\ ret.option \in {"Raise", "Lower"} => ret.before.zValue[i] < TerminalZ - 2}

(* C17: changeZValue pushes exactly one command, which holds the change of
   every item that got a new z value, when a selected item gets a new z
   value; it pushes nothing and changes nothing when no selected item
   qualifies; and undoing the pushed command gives every item it changed
   the z value it had before. *)
ChangeZValueUndoable ==
    /\ ret.op = "changeZValue" /\ ZChanged # {} =>
         /\ undo_index = ret.before.undo_index + 1
         /\ Len(undo_stack) = undo_index
         /\ SubSeq(undo_stack, 1, ret.before.undo_index)
              = SubSeq(ret.before.undo_stack, 1, ret.before.undo_index)
         /\ \A i \in ZChanged :
              [item |-> i, old |-> ret.before.zValue[i], new |-> zValue[i]]
                  \in undo_stack[undo_index].children
    /\ ret.op = "changeZValue" /\ Qualifying = {} =>
         /\ undo_stack = ret.before.undo_stack
         /\ undo_index = ret.before.undo_index
         /\ ZChanged = {}
    /\ ret.op = "undo" =>
         /\ \A c \in ret.command.children : zValue[c.item] = c.old
         /\ undo_index = ret.before.undo_index - 1
         /\ \A i \in AllItems \ {c.item : c \in ret.command.children} :
              zValue[i] = ret.before.zValue[i]

(* A command that raised two items at once was undone. *)
ChangeZValueUndoableWitness ==
    /\ ret.op = "undo"
    /\ Cardinality({c \in ret.command.children : c.old # c.new}) = 2
    /\ \E c \in ret.command.children : c.old # DefaultZ

=============================================================================
